---- MODULE Spec2Model ----
(***************************************************************************)
(* SmartServe: the table hierarchy, seats, bookings and seat-bookings of   *)
(* src/smartserve/models/__init__.py, with the validate-then-write save of *)
(* src/smartserve/models/utils.py.                                         *)
(*                                                                         *)
(* Primary keys are positive integers handed out in creation order; None   *)
(* (0) is Python's None / SQL NULL.  A save is modelled whole: full_clean  *)
(* (Model.clean, then the declared constraints) followed by the write.     *)
(* "result" holds the name of the last operation and the set of validation *)
(* errors it raised (empty when the write happened).                       *)
(***************************************************************************)
EXTENDS Integers, FiniteSets, Sequences, TLC

\* ---------------------------------------------------------------- bounds
NumRestaurants == 2
MaxTables == 3
MaxSeats == 3
MaxBookings == 2
MaxTime == 2
NumProcs == 2
MaxUsers == 2
NumNames == 2
MaxOrders == 1
MaxNumber == 2
NumUrls == 4

None == 0

Restaurants == 1..NumRestaurants
Times == 0..MaxTime
Procs == 1..NumProcs
Numbers == 1..MaxNumber
FirstNames == 1..NumNames
LastNames == {1, 2}

\* ---------------------------------------------------------------- errors
ErrOwnTable == "The parent container table cannot be this own table."
ErrSameRestaurant == "Only tables at the same restaurant can be used as a parent container table."
ErrSubTable == "The parent container table cannot be a sub-table of this table."
ErrTableNumberUnique == "Table with this Number and Restaurant already exists."
ErrStartEnd == "Start Date & Time must be before End Date & Time."
ErrBookingRestaurant == "The tables within this Booking must all be at the same restaurant."
ErrSeatOverlap == "A booking for this seat's table already exists within these start & end points."
ErrSeatBookingUnique == "Seat Booking with this Seat and Booking already exists."
ErrFaceUnique == "Seat Booking with this Booking and Face already exists."
ErrNameUnique == "An employee with that first & last name already exists at one of the restaurants that this employee is assigned to."
ErrMenuItemRestaurant == "Only menu items at this booking's restaurant can be ordered."
IntegrityError == "IntegrityError"
ValueError == "ValueError"
ProtectedError == "ProtectedError"
RequestException == "RequestException"
StopIteration == "StopIteration"

VARIABLES tables, seats, bookings, seatBookings, requests, result,
          users, employees, available_at_restaurants, orders, restaurants,
          _generatable_face_images_urls

vars == <<tables, seats, bookings, seatBookings, requests, result,
          users, employees, available_at_restaurants, orders, restaurants,
          _generatable_face_images_urls>>

tableVars == <<tables, seats>>
bookingVars == <<bookings, seatBookings>>
staffVars == <<users, employees>>
orderVars == <<available_at_restaurants, orders>>
faceVars == <<_generatable_face_images_urls>>

\* ---------------------------------------------------------------- Table
\* Table.sub_tables: the reverse side of the container_table foreign key.
sub_tables(table) == {t \in DOMAIN tables : tables[t].container_table = table}

\* Seat.table's reverse side, Table._seats.
_seats(table) == {s \in DOMAIN seats : seats[s].table = table}

\* Table.true_number
RECURSIVE true_number(_)

\* true_number reading the number of the direct container instead of recursing.
true_number_of_container(table) ==
    IF tables[table].container_table # None
    THEN tables[tables[table].container_table].number
    ELSE tables[table].number

true_number(table) ==
    IF tables[table].container_table # None
    THEN true_number(tables[table].container_table)
    ELSE tables[table].number

\* SeatManager.get_sub_table_seats
RECURSIVE get_sub_table_seats(_)

\* get_sub_table_seats stopping at the direct sub-tables.
get_sub_table_seats_one_level(table) ==
    _seats(table) \cup UNION {_seats(sub_table) : sub_table \in sub_tables(table)}

get_sub_table_seats(table) ==
    _seats(table) \cup UNION {get_sub_table_seats(sub_table) : sub_table \in sub_tables(table)}

\* get_queryset without the test for a container.
Table_seats_always_recursive(table) == get_sub_table_seats(table)

\* SeatManager.get_queryset: Table.seats
Table_seats(table) ==
    IF tables[table].container_table = None
    THEN get_sub_table_seats(table)
    ELSE _seats(table)

\* Table.clean.check_container_table_not_in_sub_tables
RECURSIVE check_container_table_not_in_sub_tables(_, _)

\* check_container_table_not_in_sub_tables looking at the direct sub-tables only.
check_container_table_not_in_direct_sub_tables(table, container_table) ==
    container_table \notin sub_tables(table)

check_container_table_not_in_sub_tables(table, container_table) ==
    IF sub_tables(table) = {} THEN TRUE
    ELSE IF container_table \in sub_tables(table) THEN FALSE
    ELSE \A sub_table \in sub_tables(table) :
            check_container_table_not_in_sub_tables(sub_table, container_table)

\* Table.clean without the test for the table itself.
Table_clean_no_own_table_check(pk, self) ==
    IF self.container_table = None THEN {}
    ELSE IF tables[self.container_table].restaurant # self.restaurant THEN {ErrSameRestaurant}
    ELSE IF pk # None /\ ~check_container_table_not_in_sub_tables(pk, self.container_table)
         THEN {ErrSubTable}
    ELSE {}

\* Table.clean without the test for the restaurant.
Table_clean_no_restaurant_check(pk, self) ==
    IF self.container_table = None THEN {}
    ELSE IF pk # None /\ self.container_table = pk THEN {ErrOwnTable}
    ELSE IF pk # None /\ ~check_container_table_not_in_sub_tables(pk, self.container_table)
         THEN {ErrSubTable}
    ELSE {}

\* Table.clean on the instance "self" with primary key pk (None before the
\* first save): the set holding the one error it raises, or the empty set.
Table_clean(pk, self) ==
    IF self.container_table = None THEN {}
    ELSE IF pk # None /\ self.container_table = pk THEN {ErrOwnTable}
    ELSE IF tables[self.container_table].restaurant # self.restaurant THEN {ErrSameRestaurant}
    ELSE IF pk # None /\ ~check_container_table_not_in_sub_tables(pk, self.container_table)
         THEN {ErrSubTable}
    ELSE {}

\* Table.Meta.constraints with the number unique over all restaurants.
Table_validate_constraints_number_only(pk, self) ==
    IF \E t \in DOMAIN tables : t # pk /\ tables[t].number = self.number
    THEN {ErrTableNumberUnique}
    ELSE {}

\* Table.Meta.constraints, as full_clean's validate_constraints checks them.
Table_validate_constraints(pk, self) ==
    IF \E t \in DOMAIN tables :
          /\ t # pk
          /\ tables[t].number = self.number
          /\ tables[t].restaurant = self.restaurant
    THEN {ErrTableNumberUnique}
    ELSE {}

\* Model.full_clean for a Table: the errors of clean and of the constraints
\* are collected together.
Table_full_clean(pk, self) ==
    Table_clean(pk, self) \cup Table_validate_constraints(pk, self)

\* CustomBaseModel.save of a Table
Table_save(op, pk, self) ==
    LET errors == Table_full_clean(pk, self)
        id == IF pk = None THEN Cardinality(DOMAIN tables) + 1 ELSE pk
    IN  /\ result' = [op |-> op, errors |-> errors]
        /\ tables' = IF errors = {}
                     THEN [t \in DOMAIN tables \cup {id} |-> IF t = id THEN self ELSE tables[t]]
                     ELSE tables

\* Table.objects.create(number=, restaurant=, container_table=)
CreateTable(number, restaurant, container_table) ==
    /\ Cardinality(DOMAIN tables) < MaxTables
    /\ Table_save("CreateTable", None,
                  [number |-> number, restaurant |-> restaurant,
                   container_table |-> container_table])
    /\ UNCHANGED <<seats, bookingVars, requests, staffVars, orderVars, restaurants, faceVars>>

\* table.update(container_table=)
UpdateTableContainer(table, container_table) ==
    /\ table \in DOMAIN tables
    /\ Table_save("UpdateTableContainer", table,
                  [tables[table] EXCEPT !.container_table = container_table])
    /\ UNCHANGED <<seats, bookingVars, requests, staffVars, orderVars, restaurants, faceVars>>

\* table.update(number=)
UpdateTableNumber(table, number) ==
    /\ table \in DOMAIN tables
    /\ Table_save("UpdateTableNumber", table, [tables[table] EXCEPT !.number = number])
    /\ UNCHANGED <<seats, bookingVars, requests, staffVars, orderVars, restaurants, faceVars>>

\* table.update(restaurant=)
UpdateTableRestaurant(table, restaurant) ==
    /\ table \in DOMAIN tables
    /\ Table_save("UpdateTableRestaurant", table,
                  [tables[table] EXCEPT !.restaurant = restaurant])
    /\ UNCHANGED <<seats, bookingVars, requests, staffVars, orderVars, restaurants, faceVars>>

\* ---------------------------------------------------------------- Seat
\* Seat.objects.create(table=): a seat has no clean of its own; its
\* location_index is taken fresh, so unique_table_location_index holds.
CreateSeat(table) ==
    /\ Cardinality(DOMAIN seats) < MaxSeats
    /\ table \in DOMAIN tables
    /\ seats' = [s \in DOMAIN seats \cup {Cardinality(DOMAIN seats) + 1} |->
                    IF s \in DOMAIN seats THEN seats[s] ELSE [table |-> table]]
    /\ result' = [op |-> "CreateSeat", errors |-> {}]
    /\ UNCHANGED <<tables, bookingVars, requests, staffVars, orderVars, restaurants, faceVars>>

\* seat.update(table=)
UpdateSeat(seat, table) ==
    /\ seat \in DOMAIN seats
    /\ table \in DOMAIN tables
    /\ seats' = [seats EXCEPT ![seat].table = table]
    /\ result' = [op |-> "UpdateSeat", errors |-> {}]
    /\ UNCHANGED <<tables, bookingVars, requests, staffVars, orderVars, restaurants, faceVars>>

\* ---------------------------------------------------------------- Booking
\* Booking.seat_bookings: the reverse side of SeatBooking.booking.
Booking_seat_bookings(booking) == {sb \in seatBookings : sb.booking = booking}

\* Booking.__init__.TableManager.get_queryset: Booking.tables
Booking_tables(booking) == {seats[sb.seat].table : sb \in Booking_seat_bookings(booking)}

\* QuerySet.first() of an unordered queryset: the row with the least pk.
first(pks) == CHOOSE pk \in pks : \A other \in pks : pk <= other

\* Booking.restaurant reading the first of all tables instead of the first of
\* the booking's tables.
Booking_restaurant_of_first_table(booking) ==
    IF Booking_tables(booking) = {} THEN None
    ELSE tables[first(DOMAIN tables)].restaurant

\* Booking.restaurant
Booking_restaurant(booking) ==
    IF Booking_tables(booking) = {} THEN None
    ELSE tables[first(Booking_tables(booking))].restaurant

\* check_start_end letting through a booking that ends when it starts.
Booking_validate_constraints_end_gte_start(self) ==
    IF self.end >= self.start THEN {} ELSE {ErrStartEnd}

\* Booking.Meta.constraints: check_start_end
Booking_validate_constraints(self) ==
    IF self.end > self.start THEN {} ELSE {ErrStartEnd}

\* CustomBaseModel.save of a Booking (Booking declares no clean)
Booking_save(op, pk, self) ==
    LET errors == Booking_validate_constraints(self)
        id == IF pk = None THEN Cardinality(DOMAIN bookings) + 1 ELSE pk
    IN  /\ result' = [op |-> op, errors |-> errors]
        /\ bookings' = IF errors = {}
                       THEN [b \in DOMAIN bookings \cup {id} |-> IF b = id THEN self ELSE bookings[b]]
                       ELSE bookings

\* Booking.objects.create(start=, end=)
CreateBooking(start, end) ==
    /\ Cardinality(DOMAIN bookings) < MaxBookings
    /\ Booking_save("CreateBooking", None, [start |-> start, end |-> end])
    /\ UNCHANGED <<tableVars, seatBookings, requests, staffVars, orderVars, restaurants, faceVars>>

\* booking.update(start=, end=)
UpdateBooking(booking, start, end) ==
    /\ booking \in DOMAIN bookings
    /\ Booking_save("UpdateBooking", booking, [start |-> start, end |-> end])
    /\ UNCHANGED <<tableVars, seatBookings, requests, staffVars, orderVars, restaurants, faceVars>>

\* ---------------------------------------------------------------- SeatBooking
\* A seat-booking row is the record of its three foreign keys; NoRow stands
\* for the pk of an instance that has not been saved yet.
NoRow == [seat |-> None, booking |-> None, face |-> None]

\* The window test with the two comparisons made strict, so that windows
\* which only touch count as a conflict.
windows_conflict_or_touch(other, booking) ==
    /\ ~(bookings[other].start > bookings[booking].end)
    /\ ~(bookings[other].end < bookings[booking].start)

\* The window test of SeatBooking.clean's queryset: a row of "other" survives
\* .exclude(booking__start__gte=end).exclude(booking__end__lte=start).
windows_conflict(other, booking) ==
    /\ ~(bookings[other].start >= bookings[booking].end)
    /\ ~(bookings[other].end <= bookings[booking].start)

\* SeatBooking.clean counting only the stored seat-bookings of the booking,
\* without the one being created.
SeatBooking_clean_counting_stored_rows(pk, self) ==
    IF /\ Booking_restaurant(self.booking) # None
       /\ Cardinality(Booking_seat_bookings(self.booking)) >= 2
       /\ tables[seats[self.seat].table].restaurant # Booking_restaurant(self.booking)
    THEN {ErrBookingRestaurant}
    ELSE IF \E other \in seatBookings :
               /\ other.booking # self.booking
               /\ seats[other.seat].table = seats[self.seat].table
               /\ windows_conflict(other.booking, self.booking)
    THEN {ErrSeatOverlap}
    ELSE {}

\* SeatBooking.clean with the overlap test also reaching the seat-bookings at
\* the container table and at the sub-tables of the seat's table.
SeatBooking_clean_over_container_and_sub_tables(pk, self) ==
    IF /\ Booking_restaurant(self.booking) # None
       /\ Cardinality(Booking_seat_bookings(self.booking)) + (IF pk = NoRow THEN 1 ELSE 0) >= 2
       /\ tables[seats[self.seat].table].restaurant # Booking_restaurant(self.booking)
    THEN {ErrBookingRestaurant}
    ELSE IF \E other \in seatBookings :
               /\ other.booking # self.booking
               /\ \/ seats[other.seat].table = seats[self.seat].table
                  \/ tables[seats[other.seat].table].container_table = seats[self.seat].table
                  \/ tables[seats[self.seat].table].container_table = seats[other.seat].table
               /\ windows_conflict(other.booking, self.booking)
    THEN {ErrSeatOverlap}
    ELSE {}

\* SeatBooking.clean: the set holding the one error it raises, or the empty set.
SeatBooking_clean(pk, self) ==
    IF /\ Booking_restaurant(self.booking) # None
       /\ Cardinality(Booking_seat_bookings(self.booking)) + (IF pk = NoRow THEN 1 ELSE 0) >= 2
       /\ tables[seats[self.seat].table].restaurant # Booking_restaurant(self.booking)
    THEN {ErrBookingRestaurant}
    ELSE IF \E other \in seatBookings :
               /\ other.booking # self.booking
               /\ seats[other.seat].table = seats[self.seat].table
               /\ windows_conflict(other.booking, self.booking)
    THEN {ErrSeatOverlap}
    ELSE {}

\* SeatBooking.Meta.constraints as the storage enforces them on a write.
SeatBooking_constraints(pk, self) ==
    (IF \E other \in seatBookings \ {pk} :
            other.seat = self.seat /\ other.booking = self.booking
     THEN {ErrSeatBookingUnique} ELSE {})
    \cup
    (IF \E other \in seatBookings \ {pk} :
            other.booking = self.booking /\ other.face = self.face
     THEN {ErrFaceUnique} ELSE {})

\* Model.full_clean for a SeatBooking: clean, then validate_constraints, which
\* skips a constraint over a field that already carries an error (the overlap
\* error is raised on "seat").
SeatBooking_full_clean(pk, self) ==
    LET errors == SeatBooking_clean(pk, self)
    IN  errors \cup
        (IF ErrSeatOverlap \in errors
         THEN SeatBooking_constraints(pk, self) \ {ErrSeatBookingUnique}
         ELSE SeatBooking_constraints(pk, self))

\* The write as it would be if the storage also held a constraint against
\* overlapping windows at one table.
SeatBooking_write_with_overlap_constraint(pk, self) ==
    IF \/ SeatBooking_constraints(pk, self) # {}
       \/ \E other \in seatBookings \ {pk} :
             /\ other.booking # self.booking
             /\ seats[other.seat].table = seats[self.seat].table
             /\ windows_conflict(other.booking, self.booking)
    THEN {IntegrityError} ELSE {}

\* The write as it would be if the storage held no uniqueness constraint.
SeatBooking_write_unconstrained(pk, self) == {}

\* Model.save (super().save in CustomBaseModel.save): the write itself, which
\* the storage refuses with an IntegrityError when a constraint is violated.
SeatBooking_write(pk, self) ==
    IF SeatBooking_constraints(pk, self) # {} THEN {IntegrityError} ELSE {}

\* CustomBaseModel.save of a SeatBooking writing before it validates: the
\* errors are raised, but the row is already stored.
SeatBooking_save_write_first(op, pk, self) ==
    LET errors == SeatBooking_full_clean(pk, self)
        raised == IF errors # {} THEN errors ELSE SeatBooking_write(pk, self)
    IN  /\ result' = [op |-> op, errors |-> raised]
        /\ seatBookings' = (seatBookings \ {pk}) \cup {self}

\* CustomBaseModel.save of a SeatBooking
SeatBooking_save(op, pk, self) ==
    LET errors == SeatBooking_full_clean(pk, self)
        raised == IF errors # {} THEN errors ELSE SeatBooking_write(pk, self)
    IN  /\ result' = [op |-> op, errors |-> raised]
        /\ seatBookings' = IF raised = {}
                           THEN (seatBookings \ {pk}) \cup {self}
                           ELSE seatBookings

\* SeatBooking.objects.create(seat=, booking=, face=)
CreateSeatBooking(seat, booking, face) ==
    /\ seat \in DOMAIN seats
    /\ booking \in DOMAIN bookings
    /\ SeatBooking_save("CreateSeatBooking", NoRow,
                        [seat |-> seat, booking |-> booking, face |-> face])
    /\ UNCHANGED <<tableVars, bookings, requests, staffVars, orderVars, restaurants, faceVars>>

\* seat_booking.update(seat=): the row keeps its identity, so the orders that
\* refer to it (Order.seat_booking) still refer to it after the write.
UpdateSeatBooking(pk, seat) ==
    /\ pk \in seatBookings
    /\ seat \in DOMAIN seats
    /\ SeatBooking_save("UpdateSeatBooking", pk, [pk EXCEPT !.seat = seat])
    /\ orders' = [o \in DOMAIN orders |->
                      IF orders[o].seat_booking = pk /\ pk \notin seatBookings'
                      THEN [orders[o] EXCEPT !.seat_booking = [pk EXCEPT !.seat = seat]]
                      ELSE orders[o]]
    /\ UNCHANGED <<tableVars, bookings, requests, staffVars, available_at_restaurants, restaurants, faceVars>>

\* ---------------------------------------------------------------- Table.bookings
\* Table.bookings over the seats directly at the table only.
Table_bookings_of_direct_seats(table) ==
    {sb.booking : sb \in {x \in seatBookings : x.seat \in _seats(table)}}

\* Table.__init__.BookingManager.get_queryset: the bookings whose pk is among
\* the bookings of the seat-bookings of the table's seats (Table.seats).
Table_bookings(table) ==
    {sb.booking : sb \in {x \in seatBookings : x.seat \in Table_seats(table)}}

\* ---------------------------------------------------------------- Table.create_booking
\* Table.create_booking makes several saves one after the other, each of them
\* committed on its own: every SeatBooking.objects.create validates against
\* the store as the saves before it have left it.  The definitions below are
\* those of the SeatBooking part, reading the bookings and the seat-bookings
\* from their arguments "bks" and "sbs".

\* Booking.restaurant, with the seat-bookings "sbs" stored.
Booking_restaurant_with(sbs, booking) ==
    LET booking_tables == {seats[sb.seat].table : sb \in {x \in sbs : x.booking = booking}}
    IN  IF booking_tables = {} THEN None
        ELSE tables[first(booking_tables)].restaurant

\* SeatBooking.clean of a seat-booking that is not stored yet, with the
\* bookings "bks" and the seat-bookings "sbs" stored.
SeatBooking_clean_with(bks, sbs, self) ==
    IF /\ Booking_restaurant_with(sbs, self.booking) # None
       /\ Cardinality({x \in sbs : x.booking = self.booking}) + 1 >= 2
       /\ tables[seats[self.seat].table].restaurant # Booking_restaurant_with(sbs, self.booking)
    THEN {ErrBookingRestaurant}
    ELSE IF \E other \in sbs :
               /\ other.booking # self.booking
               /\ seats[other.seat].table = seats[self.seat].table
               /\ ~(bks[other.booking].start >= bks[self.booking].end)
               /\ ~(bks[other.booking].end <= bks[self.booking].start)
    THEN {ErrSeatOverlap}
    ELSE {}

\* SeatBooking.Meta.constraints, with the seat-bookings "sbs" stored.
SeatBooking_constraints_with(sbs, self) ==
    (IF \E other \in sbs : other.seat = self.seat /\ other.booking = self.booking
     THEN {ErrSeatBookingUnique} ELSE {})
    \cup
    (IF \E other \in sbs : other.booking = self.booking /\ other.face = self.face
     THEN {ErrFaceUnique} ELSE {})

\* SeatBooking.objects.create(seat=, booking=, face=), with the bookings "bks"
\* and the seat-bookings "sbs" stored: the errors it raises (full_clean, then
\* the write), the empty set when the row is stored.
SeatBooking_objects_create(bks, sbs, self) ==
    LET clean == SeatBooking_clean_with(bks, sbs, self)
        errors == clean \cup
                  (IF ErrSeatOverlap \in clean
                   THEN SeatBooking_constraints_with(sbs, self) \ {ErrSeatBookingUnique}
                   ELSE SeatBooking_constraints_with(sbs, self))
    IN  IF errors # {} THEN errors
        ELSE IF SeatBooking_constraints_with(sbs, self) # {} THEN {IntegrityError}
        ELSE {}

\* The loop of create_booking without the zip: every seat is given the first face.
zip_first_face(seats_all, faces) ==
    [i \in 1..(IF Len(seats_all) <= Len(faces) THEN Len(seats_all) ELSE Len(faces))
        |-> <<seats_all[i], faces[1]>>]

\* zip(self.seats.all(), faces): the pairs up to the end of the shorter one.
zip(seats_all, faces) ==
    [i \in 1..(IF Len(seats_all) <= Len(faces) THEN Len(seats_all) ELSE Len(faces))
        |-> <<seats_all[i], faces[i]>>]

\* The loop of Table.create_booking from its i-th pair on: the seat-bookings
\* stored when it ends and the errors of the create that ended it.
RECURSIVE create_seat_bookings(_, _, _, _, _)
create_seat_bookings(bks, sbs, booking, pairs, i) ==
    IF i > Len(pairs) THEN [seatBookings |-> sbs, errors |-> {}]
    ELSE LET self == [seat |-> pairs[i][1], booking |-> booking, face |-> pairs[i][2]]
             raised == SeatBooking_objects_create(bks, sbs, self)
         IN  IF raised # {} THEN [seatBookings |-> sbs, errors |-> raised]
             ELSE create_seat_bookings(bks, sbs \cup {self}, booking, pairs, i + 1)

\* The orders in which a queryset without an ordering may yield the rows "pks".
QuerySet_orders(pks) ==
    {order \in [1..Cardinality(pks) -> pks] :
        \A i, j \in 1..Cardinality(pks) : i # j => order[i] # order[j]}

\* The body of Table.create_booking: the errors it raises and the bookings
\* and seat-bookings stored when it returns or raises; "seats_all" is the
\* order in which self.seats.all() yields the table's seats.
create_booking(self, start, end, faces, seats_all) ==
    LET booking == Cardinality(DOMAIN bookings) + 1
        errors == Booking_validate_constraints([start |-> start, end |-> end])
        bks == [b \in DOMAIN bookings \cup {booking} |->
                    IF b = booking THEN [start |-> start, end |-> end] ELSE bookings[b]]
        loop == create_seat_bookings(bks, seatBookings, booking, zip(seats_all, faces), 1)
    IN  IF errors # {}
        THEN [errors |-> errors, bookings |-> bookings, seatBookings |-> seatBookings]
        ELSE [errors |-> loop.errors, bookings |-> bks, seatBookings |-> loop.seatBookings]

\* table.create_booking(start, end, faces)
Table_create_booking(self, start, end, faces, seats_all) ==
    /\ self \in DOMAIN tables
    /\ seats_all \in QuerySet_orders(Table_seats(self))
    /\ Cardinality(DOMAIN bookings) < MaxBookings
    /\ LET call == create_booking(self, start, end, faces, seats_all)
       IN  /\ result' = [op |-> "create_booking", errors |-> call.errors]
           /\ bookings' = call.bookings
           /\ seatBookings' = call.seatBookings
    /\ UNCHANGED <<tableVars, requests, staffVars, orderVars, restaurants, faceVars>>

\* ---------------------------------------------------------------- two requests
\* CustomBaseModel.save run by concurrent requests: self.full_clean() and
\* super().save() are two steps, and another request may run between them.
Idle == [pc |-> "idle", self |-> NoRow]

\* self.full_clean() of a request creating a SeatBooking
RequestFullClean(p, seat, booking, face) ==
    LET self == [seat |-> seat, booking |-> booking, face |-> face]
        errors == SeatBooking_full_clean(NoRow, self)
    IN  /\ requests[p].pc = "idle"
        /\ seat \in DOMAIN seats
        /\ booking \in DOMAIN bookings
        /\ result' = [op |-> "RequestFullClean", errors |-> errors]
        /\ requests' = IF errors = {}
                       THEN [requests EXCEPT ![p] = [pc |-> "cleaned", self |-> self]]
                       ELSE requests
        /\ UNCHANGED <<tableVars, bookingVars, staffVars, orderVars, restaurants, faceVars>>

\* super().save() of that request
RequestSave(p) ==
    LET self == requests[p].self
        raised == SeatBooking_write(NoRow, self)
    IN  /\ requests[p].pc = "cleaned"
        /\ result' = [op |-> "RequestSave", errors |-> raised]
        /\ seatBookings' = IF raised = {} THEN seatBookings \cup {self} ELSE seatBookings
        /\ requests' = [requests EXCEPT ![p] = Idle]
        /\ UNCHANGED <<tableVars, bookings, staffVars, orderVars, restaurants, faceVars>>

\* ---------------------------------------------------------------- User, Restaurant.employees
\* User.restaurants: the reverse side of Restaurant.employees.
User_restaurants(user) == {r \in Restaurants : user \in employees[r]}

\* restaurant.employees.filter(first_name=, last_name=).exclude(pk=).exists()
employees_filter_exists(restaurant, first_name, last_name, pk) ==
    \E e \in employees[restaurant] \ {pk} :
        /\ users[e].first_name = first_name
        /\ users[e].last_name = last_name

\* User.clean looking at the first of the user's restaurants only.
User_clean_first_restaurant(pk, self) ==
    IF /\ pk # None
       /\ User_restaurants(pk) # {}
       /\ employees_filter_exists(first(User_restaurants(pk)), self.first_name, self.last_name, pk)
    THEN {ErrNameUnique}
    ELSE {}

\* User.clean: the name test over every restaurant of a user that is already
\* saved; the error is raised on first_name and last_name.
User_clean(pk, self) ==
    IF /\ pk # None
       /\ \E restaurant \in User_restaurants(pk) :
             employees_filter_exists(restaurant, self.first_name, self.last_name, pk)
    THEN {ErrNameUnique}
    ELSE {}

\* User.clean leaving is_staff as it was given.
User_cleaned_unchanged(self) == self

\* User.clean's change of the instance: a superuser is made staff.
User_cleaned(self) == [self EXCEPT !.is_staff = self.is_superuser \/ @]

\* CustomBaseModel.save of a User (the employee_id is generated, so its
\* uniqueness holds): the instance is written as clean left it.
User_save(op, pk, self) ==
    LET errors == User_clean(pk, self)
        id == IF pk = None THEN Cardinality(DOMAIN users) + 1 ELSE pk
    IN  /\ result' = [op |-> op, errors |-> errors]
        /\ users' = IF errors = {}
                    THEN [u \in DOMAIN users \cup {id} |->
                             IF u = id THEN User_cleaned(self) ELSE users[u]]
                    ELSE users

\* User.objects.create_user(first_name=, last_name=): is_staff and is_superuser
\* default to False.
CreateUser(first_name, last_name) ==
    /\ Cardinality(DOMAIN users) < MaxUsers
    /\ User_save("CreateUser", None,
                 [first_name |-> first_name, last_name |-> last_name,
                  is_staff |-> FALSE, is_superuser |-> FALSE])
    /\ UNCHANGED <<tableVars, bookingVars, requests, employees, orderVars, restaurants, faceVars>>

\* create_superuser's extra_fields.setdefault(field, True)
setdefault_True(extra_fields, field) ==
    IF field \in DOMAIN extra_fields THEN extra_fields[field] ELSE TRUE

\* User.objects.create_superuser(first_name=, last_name=, **extra_fields),
\* extra_fields giving is_staff, is_superuser, both or neither.
CreateSuperuser(first_name, last_name, extra_fields) ==
    LET is_staff == setdefault_True(extra_fields, "is_staff")
        is_superuser == setdefault_True(extra_fields, "is_superuser")
    IN  /\ Cardinality(DOMAIN users) < MaxUsers
        /\ IF is_staff # TRUE \/ is_superuser # TRUE
           THEN /\ result' = [op |-> "CreateSuperuser", errors |-> {ValueError}]
                /\ users' = users
           ELSE User_save("CreateSuperuser", None,
                          [first_name |-> first_name, last_name |-> last_name,
                           is_staff |-> is_staff, is_superuser |-> is_superuser])
        /\ UNCHANGED <<tableVars, bookingVars, requests, employees, orderVars, restaurants, faceVars>>

\* user.update(first_name=, last_name=)
UpdateUserName(user, first_name, last_name) ==
    /\ user \in DOMAIN users
    /\ User_save("UpdateUserName", user,
                 [users[user] EXCEPT !.first_name = first_name, !.last_name = last_name])
    /\ UNCHANGED <<tableVars, bookingVars, requests, employees, orderVars, restaurants, faceVars>>

\* user.update(is_staff=, is_superuser=)
UpdateUserFlags(user, is_staff, is_superuser) ==
    /\ user \in DOMAIN users
    /\ User_save("UpdateUserFlags", user,
                 [users[user] EXCEPT !.is_staff = is_staff, !.is_superuser = is_superuser])
    /\ UNCHANGED <<tableVars, bookingVars, requests, employees, orderVars, restaurants, faceVars>>

\* user_added_to_restaurant on pre_add, sent by restaurant.employees.add:
\* instance is the restaurant and pk_set the users that are not employees yet.
user_added_to_restaurant_forward(instance, pk_set) ==
    IF \E user \in pk_set :
          employees_filter_exists(instance, users[user].first_name, users[user].last_name, user)
    THEN {IntegrityError}
    ELSE {}

\* user_added_to_restaurant on pre_add, sent by user.restaurants.add: instance
\* is the user and pk_set the restaurants the user is not assigned to yet.
user_added_to_restaurant_reverse(instance, pk_set) ==
    IF \E restaurant \in pk_set :
          employees_filter_exists(restaurant, users[instance].first_name,
                                  users[instance].last_name, instance)
    THEN {IntegrityError}
    ELSE {}

\* restaurant.employees.add(*objs): the pre_add signal, then the rows.
RestaurantEmployeesAdd(restaurant, objs) ==
    LET pk_set == objs \ employees[restaurant]
        raised == user_added_to_restaurant_forward(restaurant, pk_set)
    IN  /\ objs \subseteq DOMAIN users
        /\ objs # {}
        /\ result' = [op |-> "RestaurantEmployeesAdd", errors |-> raised]
        /\ employees' = IF raised = {}
                        THEN [employees EXCEPT ![restaurant] = @ \cup pk_set]
                        ELSE employees
        /\ UNCHANGED <<tableVars, bookingVars, requests, users, orderVars, restaurants, faceVars>>

\* user.restaurants.add(*objs): the pre_add signal, then the rows.
UserRestaurantsAdd(user, objs) ==
    LET pk_set == objs \ User_restaurants(user)
        raised == user_added_to_restaurant_reverse(user, pk_set)
    IN  /\ user \in DOMAIN users
        /\ objs # {}
        /\ result' = [op |-> "UserRestaurantsAdd", errors |-> raised]
        /\ employees' = IF raised = {}
                        THEN [r \in Restaurants |->
                                 IF r \in pk_set THEN employees[r] \cup {user} ELSE employees[r]]
                        ELSE employees
        /\ UNCHANGED <<tableVars, bookingVars, requests, users, orderVars, restaurants, faceVars>>

\* ---------------------------------------------------------------- MenuItem, Order
\* menu_item.available_at_restaurants.add(restaurant): no handler listens to
\* the changes of this relation.
MenuItemRestaurantsAdd(menu_item, restaurant) ==
    /\ menu_item \in DOMAIN available_at_restaurants
    /\ available_at_restaurants' =
          [available_at_restaurants EXCEPT ![menu_item] = @ \cup {restaurant}]
    /\ result' = [op |-> "MenuItemRestaurantsAdd", errors |-> {}]
    /\ UNCHANGED <<tableVars, bookingVars, requests, staffVars, orders, restaurants, faceVars>>

\* menu_item.available_at_restaurants.remove(restaurant)
MenuItemRestaurantsRemove(menu_item, restaurant) ==
    /\ menu_item \in DOMAIN available_at_restaurants
    /\ available_at_restaurants' =
          [available_at_restaurants EXCEPT ![menu_item] = @ \ {restaurant}]
    /\ result' = [op |-> "MenuItemRestaurantsRemove", errors |-> {}]
    /\ UNCHANGED <<tableVars, bookingVars, requests, staffVars, orders, restaurants, faceVars>>

\* Order.clean passing a menu item that is available at any restaurant.
Order_clean_available_anywhere(self) ==
    IF available_at_restaurants[self.menu_item] = {}
    THEN {ErrMenuItemRestaurant}
    ELSE {}

\* Order.clean: the restaurant of the seat-booking's seat's table must be in
\* the menu item's availability set; the error is raised on menu_item.
Order_clean(self) ==
    IF tables[seats[self.seat_booking.seat].table].restaurant
          \notin available_at_restaurants[self.menu_item]
    THEN {ErrMenuItemRestaurant}
    ELSE {}

\* CustomBaseModel.save of an Order
Order_save(op, pk, self) ==
    LET errors == Order_clean(self)
        id == IF pk = None THEN Cardinality(DOMAIN orders) + 1 ELSE pk
    IN  /\ result' = [op |-> op, errors |-> errors]
        /\ orders' = IF errors = {}
                     THEN [o \in DOMAIN orders \cup {id} |-> IF o = id THEN self ELSE orders[o]]
                     ELSE orders

\* Order.objects.create(menu_item=, seat_booking=, course=)
CreateOrder(menu_item, seat_booking) ==
    /\ Cardinality(DOMAIN orders) < MaxOrders
    /\ menu_item \in DOMAIN available_at_restaurants
    /\ seat_booking \in seatBookings
    /\ Order_save("CreateOrder", None, [menu_item |-> menu_item, seat_booking |-> seat_booking])
    /\ UNCHANGED <<tableVars, bookingVars, requests, staffVars, available_at_restaurants, restaurants, faceVars>>

\* ---------------------------------------------------------------- deletion
\* Model.delete() first collects the rows that the on_delete rules of the
\* foreign keys pointing at the deleted rows reach, and raises ProtectedError,
\* with nothing deleted, when a PROTECT rule is met; only then it deletes.

\* Seat.table, on_delete=CASCADE: the seats deleted with the tables "pks".
cascade_seats(pks) == {s \in DOMAIN seats : seats[s].table \in pks}

\* Table.restaurant, on_delete=CASCADE: the tables deleted with the restaurant.
cascade_tables(restaurant) == {t \in DOMAIN tables : tables[t].restaurant = restaurant}

\* SeatBooking.booking, on_delete=CASCADE: the seat-bookings deleted with the booking.
cascade_seat_bookings(booking) == {sb \in seatBookings : sb.booking = booking}

\* Order.seat_booking, on_delete=CASCADE: the orders deleted with the seat-bookings "sbs".
cascade_orders(sbs) == {o \in DOMAIN orders : orders[o].seat_booking \in sbs}

\* The collection with SeatBooking.seat declared on_delete=CASCADE: no
\* seat-booking protects a seat.
protected_seat_bookings_none(pks) == {}

\* SeatBooking.seat, on_delete=PROTECT: the seat-bookings that keep the seats
\* "pks" from being deleted.
protected_seat_bookings(pks) == {sb \in seatBookings : sb.seat \in pks}

\* Table.container_table, on_delete=SET_NULL, for the deleted tables "pks".
set_null_container_table(table, pks) ==
    IF table.container_table \in pks THEN [table EXCEPT !.container_table = None] ELSE table

\* The deletion of the tables "table_pks" and the seats "seat_pks" that the
\* collection has reached.
delete_tables_and_seats(op, table_pks, seat_pks) ==
    IF protected_seat_bookings(seat_pks) # {}
    THEN /\ result' = [op |-> op, errors |-> {ProtectedError}]
         /\ UNCHANGED tableVars
    ELSE /\ result' = [op |-> op, errors |-> {}]
         /\ tables' = [t \in DOMAIN tables \ table_pks |->
                           set_null_container_table(tables[t], table_pks)]
         /\ seats' = [s \in DOMAIN seats \ seat_pks |-> seats[s]]

\* restaurant.delete(): the rows of Restaurant.employees and of
\* MenuItem.available_at_restaurants for the restaurant go with it.
DeleteRestaurant(restaurant) ==
    /\ restaurant \in restaurants
    /\ delete_tables_and_seats("DeleteRestaurant", cascade_tables(restaurant),
                               cascade_seats(cascade_tables(restaurant)))
    /\ IF protected_seat_bookings(cascade_seats(cascade_tables(restaurant))) # {}
       THEN UNCHANGED <<restaurants, employees, available_at_restaurants>>
       ELSE /\ restaurants' = restaurants \ {restaurant}
            /\ employees' = [employees EXCEPT ![restaurant] = {}]
            /\ available_at_restaurants' =
                   [m \in DOMAIN available_at_restaurants |->
                        available_at_restaurants[m] \ {restaurant}]
    /\ UNCHANGED <<bookingVars, requests, users, orders, faceVars>>

\* table.delete()
DeleteTable(table) ==
    /\ table \in DOMAIN tables
    /\ delete_tables_and_seats("DeleteTable", {table}, cascade_seats({table}))
    /\ UNCHANGED <<bookingVars, requests, staffVars, orderVars, restaurants, faceVars>>

\* seat.delete()
DeleteSeat(seat) ==
    /\ seat \in DOMAIN seats
    /\ delete_tables_and_seats("DeleteSeat", {}, {seat})
    /\ UNCHANGED <<bookingVars, requests, staffVars, orderVars, restaurants, faceVars>>

\* booking.delete()
DeleteBooking(booking) ==
    /\ booking \in DOMAIN bookings
    /\ result' = [op |-> "DeleteBooking", errors |-> {}]
    /\ bookings' = [b \in DOMAIN bookings \ {booking} |-> bookings[b]]
    /\ seatBookings' = seatBookings \ cascade_seat_bookings(booking)
    /\ orders' = [o \in DOMAIN orders \ cascade_orders(cascade_seat_bookings(booking))
                      |-> orders[o]]
    /\ UNCHANGED <<tableVars, requests, staffVars, available_at_restaurants, restaurants, faceVars>>

\* seat_booking.delete()
DeleteSeatBooking(pk) ==
    /\ pk \in seatBookings
    /\ result' = [op |-> "DeleteSeatBooking", errors |-> {}]
    /\ seatBookings' = seatBookings \ {pk}
    /\ orders' = [o \in DOMAIN orders \ cascade_orders({pk}) |-> orders[o]]
    /\ UNCHANGED <<tableVars, bookings, requests, staffVars, available_at_restaurants,
                   restaurants, faceVars>>

\* ---------------------------------------------------------------- Face.generate_image
\* The URLs of face_image_urls.json.
Urls == 1..NumUrls

\* iter(set(face_image_urls)): a set is iterated in an order of its own.
iter_set(urls) ==
    {order \in [1..Cardinality(urls) -> urls] :
        \A i, j \in 1..Cardinality(urls) : i # j => order[i] # order[j]}

\* The status codes a GET may answer with: 200, or one that is not 200.
StatusCodes == {200, 404}

\* attempt_get_image giving up after the second URL.
RECURSIVE attempt_get_image_two_attempts(_, _, _, _)
attempt_get_image_two_attempts(iterator, image_url, attempts, status_codes) ==
    IF status_codes[attempts + 1] = 200
    THEN [errors |-> {}, image |-> image_url, iterator |-> iterator]
    ELSE IF attempts >= 1
    THEN [errors |-> {RequestException}, image |-> None, iterator |-> iterator]
    ELSE IF iterator = <<>>
    THEN [errors |-> {StopIteration}, image |-> None, iterator |-> iterator]
    ELSE attempt_get_image_two_attempts(Tail(iterator), Head(iterator), attempts + 1, status_codes)

\* attempt_get_image(image_url, attempts) of Face.generate_image, with the
\* shared iterator as it is once image_url has been taken from it;
\* status_codes[i] is the answer to the i-th GET of the call.  image_from_url
\* raises RequestException unless the status code is 200, and next() raises
\* StopIteration on an iterator that has ended.
RECURSIVE attempt_get_image(_, _, _, _)
attempt_get_image(iterator, image_url, attempts, status_codes) ==
    IF status_codes[attempts + 1] = 200
    THEN [errors |-> {}, image |-> image_url, iterator |-> iterator]
    ELSE IF attempts >= 2
    THEN [errors |-> {RequestException}, image |-> None, iterator |-> iterator]
    ELSE IF iterator = <<>>
    THEN [errors |-> {StopIteration}, image |-> None, iterator |-> iterator]
    ELSE attempt_get_image(Tail(iterator), Head(iterator), attempts + 1, status_codes)

\* Face.generate_image(): the image returned is named by its URL.
Face_generate_image(status_codes) ==
    /\ LET call == IF _generatable_face_images_urls = <<>>
                   THEN [errors |-> {StopIteration}, image |-> None,
                         iterator |-> _generatable_face_images_urls]
                   ELSE attempt_get_image(Tail(_generatable_face_images_urls),
                                          Head(_generatable_face_images_urls), 0, status_codes)
       IN  /\ result' = [op |-> "generate_image", errors |-> call.errors, image |-> call.image]
           /\ _generatable_face_images_urls' = call.iterator
    /\ UNCHANGED <<tableVars, bookingVars, requests, staffVars, orderVars, restaurants>>

\* ---------------------------------------------------------------- specifications
EmptyStore == <<>>

NoRequests == [p \in Procs |-> Idle]

\* No user is registered and no restaurant has an employee.
NoStaff ==
    /\ users = EmptyStore
    /\ employees = [r \in Restaurants |-> {}]

\* No menu item and no order exists.
NoOrders ==
    /\ available_at_restaurants = EmptyStore
    /\ orders = EmptyStore

\* The number given to a new table: tables are numbered in creation order.
NextNumber == Cardinality(DOMAIN tables) + 1

\* The table hierarchy: tables are created and re-parented, and moved between
\* restaurants, starting from the empty store.
Init ==
    /\ tables = EmptyStore
    /\ seats = EmptyStore
    /\ bookings = EmptyStore
    /\ seatBookings = {}
    /\ requests = NoRequests
    /\ restaurants = Restaurants
    /\ _generatable_face_images_urls = <<>>
    /\ result = [op |-> "init", errors |-> {}]
    /\ NoStaff
    /\ NoOrders

Next ==
    \/ \E r \in Restaurants, c \in DOMAIN tables \cup {None} : CreateTable(NextNumber, r, c)
    \/ \E t \in DOMAIN tables, c \in DOMAIN tables \cup {None} : UpdateTableContainer(t, c)
    \/ \E t \in DOMAIN tables, r \in Restaurants : UpdateTableRestaurant(t, r)

Spec == Init /\ [][Next]_vars

\* Table numbers: tables without containers are created under any number at
\* any restaurant, renumbered and moved between restaurants.
NextNumbers ==
    \/ \E n \in Numbers, r \in Restaurants : CreateTable(n, r, None)
    \/ \E t \in DOMAIN tables, n \in Numbers : UpdateTableNumber(t, n)
    \/ \E t \in DOMAIN tables, r \in Restaurants : UpdateTableRestaurant(t, r)

SpecNumbers == Init /\ [][NextNumbers]_vars

\* The seats of a hierarchy: the tables of one restaurant are created and
\* re-parented and seats are put at them.
NextSeats ==
    \/ \E c \in DOMAIN tables \cup {None} : CreateTable(NextNumber, 1, c)
    \/ \E t \in DOMAIN tables, c \in DOMAIN tables \cup {None} : UpdateTableContainer(t, c)
    \/ \E t \in DOMAIN tables : CreateSeat(t)

SpecSeats == Init /\ [][NextSeats]_vars

\* Bookings at a restaurant floor that is already laid out: table 1 with its
\* sub-table 2 at restaurant 1, table 3 at restaurant 2; seats 1 and 2 at
\* table 1, seat 3 at table 3.  Two bookings have been made, both for [0, 1),
\* and no seat is booked yet.
FloorTables ==
    <<[number |-> 1, restaurant |-> 1, container_table |-> None],
      [number |-> 2, restaurant |-> 1, container_table |-> 1],
      [number |-> 1, restaurant |-> 2, container_table |-> None]>>

FloorSeats == <<[table |-> 1], [table |-> 1], [table |-> 3]>>

FloorBookings == <<[start |-> 0, end |-> 1], [start |-> 0, end |-> 1]>>

\* The face given to a new seat-booking: every seat's guest has a face of their
\* own, as the seat-bookings made by TestSeatBookingFactory.create have.
GuestFace(seat) == seat

InitBookings ==
    /\ tables = FloorTables
    /\ seats = FloorSeats
    /\ bookings = FloorBookings
    /\ seatBookings = {}
    /\ requests = NoRequests
    /\ restaurants = Restaurants
    /\ _generatable_face_images_urls = <<>>
    /\ result = [op |-> "init", errors |-> {}]
    /\ NoStaff
    /\ NoOrders

NextBookings ==
    \/ \E b \in DOMAIN bookings, s, e \in Times : UpdateBooking(b, s, e)
    \/ \E s \in DOMAIN seats, b \in DOMAIN bookings : CreateSeatBooking(s, b, GuestFace(s))

SpecBookings == InitBookings /\ [][NextBookings]_vars

\* The staff of two restaurants: users are registered and renamed and
\* assigned to the restaurants, from the restaurant's side and from the
\* user's, one or several at a time.
StaffRestaurants == {1, 2}

NextStaff ==
    \/ \E f \in FirstNames, l \in LastNames : CreateUser(f, l)
    \/ \E u \in DOMAIN users, f \in FirstNames, l \in LastNames : UpdateUserName(u, f, l)
    \/ \E r \in StaffRestaurants, us \in SUBSET DOMAIN users : RestaurantEmployeesAdd(r, us)
    \/ \E u \in DOMAIN users, rs \in SUBSET StaffRestaurants : UserRestaurantsAdd(u, rs)

SpecStaff == Init /\ [][NextStaff]_vars

\* Booking windows: on the floor of FloorTables with one seat at table 1,
\* bookings are created and their start and end changed, with any pair of
\* times, and the seat is booked.
InitWindows ==
    /\ tables = FloorTables
    /\ seats = <<[table |-> 1]>>
    /\ bookings = EmptyStore
    /\ seatBookings = {}
    /\ requests = NoRequests
    /\ restaurants = Restaurants
    /\ _generatable_face_images_urls = <<>>
    /\ result = [op |-> "init", errors |-> {}]
    /\ NoStaff
    /\ NoOrders

NextWindows ==
    \/ \E s, e \in Times : CreateBooking(s, e)
    \/ \E b \in DOMAIN bookings, s, e \in Times : UpdateBooking(b, s, e)
    \/ \E s \in DOMAIN seats, b \in DOMAIN bookings : CreateSeatBooking(s, b, GuestFace(s))

SpecWindows == InitWindows /\ [][NextWindows]_vars

\* A table and its sub-table: on the floor of FloorTables, seat 1 is at table 1
\* and seat 2 at its sub-table 2; the two bookings of FloorBookings change
\* their windows and the seats are booked.
NestedSeats == <<[table |-> 1], [table |-> 2]>>

InitNested ==
    /\ tables = FloorTables
    /\ seats = NestedSeats
    /\ bookings = FloorBookings
    /\ seatBookings = {}
    /\ requests = NoRequests
    /\ restaurants = Restaurants
    /\ _generatable_face_images_urls = <<>>
    /\ result = [op |-> "init", errors |-> {}]
    /\ NoStaff
    /\ NoOrders

SpecNested == InitNested /\ [][NextBookings]_vars

\* Accounts: users and superusers are created, with is_staff and is_superuser
\* given or left out, and the two flags of stored users are changed.
ExtraFields ==
    UNION {[fields -> BOOLEAN] : fields \in SUBSET {"is_staff", "is_superuser"}}

NextAccounts ==
    \/ \E f \in FirstNames, l \in LastNames : CreateUser(f, l)
    \/ \E f \in FirstNames, l \in LastNames, extra_fields \in ExtraFields :
          CreateSuperuser(f, l, extra_fields)
    \/ \E u \in DOMAIN users, is_staff, is_superuser \in BOOLEAN :
          UpdateUserFlags(u, is_staff, is_superuser)

SpecAccounts == Init /\ [][NextAccounts]_vars

\* A booked floor that is rearranged: on the floor of FloorTables and
\* FloorSeats, with one booking made, seats are booked and seat-bookings moved
\* to other seats while tables change restaurant and seats change table.
InitFloor ==
    /\ tables = FloorTables
    /\ seats = FloorSeats
    /\ bookings = <<[start |-> 0, end |-> 1]>>
    /\ seatBookings = {}
    /\ requests = NoRequests
    /\ restaurants = Restaurants
    /\ _generatable_face_images_urls = <<>>
    /\ result = [op |-> "init", errors |-> {}]
    /\ NoStaff
    /\ NoOrders

NextFloor ==
    \/ \E s \in DOMAIN seats, b \in DOMAIN bookings : CreateSeatBooking(s, b, GuestFace(s))
    \/ \E sb \in seatBookings, s \in DOMAIN seats : UpdateSeatBooking(sb, s)
    \/ \E s \in DOMAIN seats, t \in DOMAIN tables : UpdateSeat(s, t)
    \/ \E t \in DOMAIN tables, r \in Restaurants : UpdateTableRestaurant(t, r)

SpecFloor == InitFloor /\ [][NextFloor]_vars

\* Orders: three tables without containers, numbered 1 to 3, the first two at
\* restaurant 1 and the third at restaurant 2, with the seats of FloorSeats;
\* one menu item, available nowhere at first, and two bookings, the first
\* with seat 1 (restaurant 1) and the second with seat 3 (restaurant 2).  The
\* item's availability set changes, orders are placed, seat-bookings move to
\* other seats and tables to other restaurants.
OrderTables ==
    <<[number |-> 1, restaurant |-> 1, container_table |-> None],
      [number |-> 2, restaurant |-> 1, container_table |-> None],
      [number |-> 3, restaurant |-> 2, container_table |-> None]>>

InitOrders ==
    /\ tables = OrderTables
    /\ seats = FloorSeats
    /\ bookings = FloorBookings
    /\ seatBookings = {[seat |-> 1, booking |-> 1, face |-> GuestFace(1)],
                       [seat |-> 3, booking |-> 2, face |-> GuestFace(3)]}
    /\ requests = NoRequests
    /\ restaurants = Restaurants
    /\ _generatable_face_images_urls = <<>>
    /\ result = [op |-> "init", errors |-> {}]
    /\ NoStaff
    /\ available_at_restaurants = <<{}>>
    /\ orders = EmptyStore

NextOrders ==
    \/ \E m \in DOMAIN available_at_restaurants, r \in Restaurants : MenuItemRestaurantsAdd(m, r)
    \/ \E m \in DOMAIN available_at_restaurants, r \in Restaurants : MenuItemRestaurantsRemove(m, r)
    \/ \E m \in DOMAIN available_at_restaurants, sb \in seatBookings : CreateOrder(m, sb)
    \/ \E sb \in seatBookings, s \in DOMAIN seats : UpdateSeatBooking(sb, s)
    \/ \E t \in DOMAIN tables, r \in Restaurants : UpdateTableRestaurant(t, r)

SpecOrders == InitOrders /\ [][NextOrders]_vars

\* Two requests creating seat-bookings at the two seats of one table, for two
\* bookings that are already made: booking 1 for [0, 1), booking 2 for any window.
RequestSeats == <<[table |-> 1], [table |-> 1]>>

InitRequests ==
    /\ tables = FloorTables
    /\ seats = RequestSeats
    /\ \E s, e \in Times :
          /\ s < e
          /\ bookings = <<[start |-> 0, end |-> 1], [start |-> s, end |-> e]>>
    /\ seatBookings = {}
    /\ requests = NoRequests
    /\ restaurants = Restaurants
    /\ _generatable_face_images_urls = <<>>
    /\ result = [op |-> "init", errors |-> {}]
    /\ NoStaff
    /\ NoOrders

NextRequests ==
    \/ \E p \in Procs, s \in DOMAIN seats, b \in DOMAIN bookings :
          RequestFullClean(p, s, b, GuestFace(s))
    \/ \E p \in Procs : RequestSave(p)

SpecRequests == InitRequests /\ [][NextRequests]_vars

\* Requests creating seat-bookings with any of two faces, at the two seats of
\* one table and for two bookings whose windows do not overlap, so that only
\* the two uniqueness constraints can refuse a seat-booking; stored
\* seat-bookings are also moved to the other seat.
Faces == {1, 2}

InitFaces ==
    /\ tables = FloorTables
    /\ seats = RequestSeats
    /\ bookings = <<[start |-> 0, end |-> 1], [start |-> 1, end |-> 2]>>
    /\ seatBookings = {}
    /\ requests = NoRequests
    /\ restaurants = Restaurants
    /\ _generatable_face_images_urls = <<>>
    /\ result = [op |-> "init", errors |-> {}]
    /\ NoStaff
    /\ NoOrders

NextFaces ==
    \/ \E p \in Procs, s \in DOMAIN seats, b \in DOMAIN bookings, f \in Faces :
          RequestFullClean(p, s, b, f)
    \/ \E p \in Procs : RequestSave(p)
    \/ \E sb \in seatBookings, s \in DOMAIN seats : UpdateSeatBooking(sb, s)

SpecFaces == InitFaces /\ [][NextFaces]_vars

\* Reservations: table 1 with its sub-table 2 at restaurant 1, with seat 1 at
\* table 1 and seat 2 at table 2.  Tables are booked through create_booking, for a window
\* of ReservationWindows (two that touch, one that overlaps both, one that
\* ends when it starts) and with the faces of FaceLists (none, fewer than the
\* seats, a repeated face, as many as the seats, more than the seats), and
\* table 1 is moved to other restaurants.
ReservationTables ==
    <<[number |-> 1, restaurant |-> 1, container_table |-> None],
      [number |-> 2, restaurant |-> 1, container_table |-> 1]>>

ReservationSeats == <<[table |-> 1], [table |-> 2]>>

ReservationWindows == {<<0, 1>>, <<1, 2>>, <<0, 2>>, <<1, 1>>}

FaceLists == {<<>>, <<1>>, <<1, 1>>, <<1, 2>>, <<1, 2, 1>>}

InitReservations ==
    /\ tables = ReservationTables
    /\ seats = ReservationSeats
    /\ bookings = EmptyStore
    /\ seatBookings = {}
    /\ requests = NoRequests
    /\ restaurants = Restaurants
    /\ _generatable_face_images_urls = <<>>
    /\ result = [op |-> "init", errors |-> {}]
    /\ NoStaff
    /\ NoOrders

NextReservations ==
    \/ \E t \in DOMAIN tables, window \in ReservationWindows, faces \in FaceLists :
          \E seats_all \in QuerySet_orders(Table_seats(t)) :
              Table_create_booking(t, window[1], window[2], faces, seats_all)
    \/ \E r \in Restaurants : UpdateTableRestaurant(1, r)

SpecReservations == InitReservations /\ [][NextReservations]_vars

\* Deletion: on the floor of FloorTables and FloorSeats with two bookings
\* whose windows do not overlap, seats are booked and seat-bookings, bookings,
\* seats, tables and restaurants are deleted.
InitDeletion ==
    /\ tables = FloorTables
    /\ seats = FloorSeats
    /\ bookings = <<[start |-> 0, end |-> 1], [start |-> 1, end |-> 2]>>
    /\ seatBookings = {}
    /\ requests = NoRequests
    /\ restaurants = Restaurants
    /\ _generatable_face_images_urls = <<>>
    /\ result = [op |-> "init", errors |-> {}]
    /\ NoStaff
    /\ NoOrders

NextDeletion ==
    \/ \E s \in DOMAIN seats, b \in DOMAIN bookings : CreateSeatBooking(s, b, GuestFace(s))
    \/ \E r \in restaurants : DeleteRestaurant(r)
    \/ \E t \in DOMAIN tables : DeleteTable(t)
    \/ \E s \in DOMAIN seats : DeleteSeat(s)
    \/ \E b \in DOMAIN bookings : DeleteBooking(b)
    \/ \E sb \in seatBookings : DeleteSeatBooking(sb)

SpecDeletion == InitDeletion /\ [][NextDeletion]_vars

\* Face images: the URL file is missing or empty, or holds some of the URLs of
\* Urls, which the iterator yields in any order; images are generated one call
\* after the other, every GET answering with any status code.
InitImages ==
    /\ tables = EmptyStore
    /\ seats = EmptyStore
    /\ bookings = EmptyStore
    /\ seatBookings = {}
    /\ requests = NoRequests
    /\ restaurants = Restaurants
    /\ _generatable_face_images_urls \in UNION {iter_set(urls) : urls \in SUBSET Urls}
    /\ result = [op |-> "init", errors |-> {}]
    /\ NoStaff
    /\ NoOrders

NextImages == \E status_codes \in [1..3 -> StatusCodes] : Face_generate_image(status_codes)

SpecImages == InitImages /\ [][NextImages]_vars

\* ---------------------------------------------------------------- the hierarchy, read independently
\* The table reached from "table" by following container_table k times
\* (None once the chain has ended).
RECURSIVE NthContainer(_, _)
NthContainer(table, k) ==
    IF k = 0 THEN table
    ELSE LET below == NthContainer(table, k - 1)
         IN  IF below = None THEN None ELSE tables[below].container_table

Ancestors(table) ==
    {NthContainer(table, k) : k \in 1..Cardinality(DOMAIN tables)} \ {None}

Descendants(table) == {t \in DOMAIN tables : table \in Ancestors(t)}

Depth(table) == Cardinality(Ancestors(table))

\* The end of the container chain of "table".
Root(table) ==
    CHOOSE t \in Ancestors(table) \cup {table} : tables[t].container_table = None

\* ---------------------------------------------------------------- claims

\* ---------------------------------------------------------------- bookings, read independently
\* The half-open windows of bookings a and b overlap.
Overlap(a, b) ==
    ~(bookings[a].end <= bookings[b].start \/ bookings[a].start >= bookings[b].end)

SameTable(s1, s2) == seats[s1].table = seats[s2].table

\* A stored seat-booking of another booking, at the table of "seat", whose
\* window overlaps that of "booking".
Conflicting(seat, booking) ==
    {other \in seatBookings :
        /\ other.booking # booking
        /\ SameTable(other.seat, seat)
        /\ Overlap(other.booking, booking)}

\* "booking" has seat-bookings already and "seat" is at another restaurant.
OtherRestaurant(seat, booking) ==
    /\ Booking_seat_bookings(booking) # {}
    /\ tables[seats[seat].table].restaurant # Booking_restaurant(booking)

\* C1 as claimed: no two seat-bookings of different bookings at seats of one
\* table have overlapping windows.
C1_NoOverlapAtOneTable ==
    \A a, b \in seatBookings :
        (a.booking # b.booking /\ SameTable(a.seat, b.seat)) => ~Overlap(a.booking, b.booking)

\* The instance a creation of a seat-booking validates and writes.
NewSeatBooking(s, b, f) == [seat |-> s, booking |-> b, face |-> f]

\* A save that raised an error wrote nothing, and a creation that raised none
\* added exactly one seat-booking.
SeatBookingWriteFollowsValidation ==
    result'.op = "CreateSeatBooking" =>
        IF result'.errors # {}
        THEN seatBookings' = seatBookings
        ELSE \E sb \in seatBookings' :
                /\ sb \notin seatBookings
                /\ seatBookings' = seatBookings \cup {sb}
                /\ SeatBooking_full_clean(NoRow, sb) = {}

\* C2 as claimed: creating a seat-booking raises the overlap error on seat
\* exactly when a stored seat-booking of another booking at the same table
\* has an overlapping window.
C2_OverlapErrorIffConflict ==
    [][\A s \in DOMAIN seats, b \in DOMAIN bookings :
          (result'.op = "CreateSeatBooking" /\ CreateSeatBooking(s, b, GuestFace(s))) =>
              /\ ErrSeatOverlap \in result'.errors <=> Conflicting(s, b) # {}
              /\ result'.errors # {} => seatBookings' = seatBookings]_vars

\* C2 amended: creating a seat-booking raises the overlap error on seat
\* exactly when a stored seat-booking of another booking at the same table
\* has an overlapping window and the same-restaurant test, which clean makes
\* first, does not refuse the seat; with neither a conflict nor any other
\* violated rule the validation raises nothing and the seat-booking is stored.
C2_OverlapErrorIffConflictAtSameRestaurant ==
    /\ [](\A s \in DOMAIN seats, b \in DOMAIN bookings :
            LET f == GuestFace(s)
                errors == SeatBooking_full_clean(NoRow, NewSeatBooking(s, b, f))
            IN  /\ ErrSeatOverlap \in errors
                      <=> (Conflicting(s, b) # {} /\ ~OtherRestaurant(s, b))
                /\ ErrBookingRestaurant \in errors <=> OtherRestaurant(s, b)
                /\ (/\ Conflicting(s, b) = {}
                    /\ ~OtherRestaurant(s, b)
                    /\ \A other \in Booking_seat_bookings(b) :
                          other.seat # s /\ other.face # f)
                      => errors = {})
    /\ [][SeatBookingWriteFollowsValidation]_vars

\* C2 witness: a seat-booking has just been refused for overlap alone: the
\* booking has no seat at another restaurant, and a seat-booking of another
\* booking with an overlapping window is stored at another seat of a table
\* where the booking itself holds no seat yet.
C2_Witness ==
    /\ result.op = "CreateSeatBooking"
    /\ result.errors = {ErrSeatOverlap}
    /\ \E s \in DOMAIN seats, b \in DOMAIN bookings :
          /\ ~OtherRestaurant(s, b)
          /\ \A own \in Booking_seat_bookings(b) : ~SameTable(own.seat, s)
          /\ \E other \in Conflicting(s, b) : other.seat # s

\* C3: the write of a request that has passed full_clean is refused only for
\* the two uniqueness constraints: it goes through although a seat-booking of
\* another booking with an overlapping window at the same table has been
\* stored in the meantime.
C3_WriteNotRefusedForOverlap ==
    [][\A p \in Procs :
          (/\ result'.op = "RequestSave"
           /\ RequestSave(p)
           /\ Conflicting(requests[p].self.seat, requests[p].self.booking) # {}
           /\ \A other \in seatBookings :
                 other.booking = requests[p].self.booking =>
                     (other.seat # requests[p].self.seat /\ other.face # requests[p].self.face))
             => (result'.errors = {} /\ requests[p].self \in seatBookings')]_vars

\* C3 witness: both requests have written and two seat-bookings of different
\* bookings with overlapping windows are stored at one table.
C3_Witness ==
    /\ result.op = "RequestSave"
    /\ result.errors = {}
    /\ \E a, b \in seatBookings :
          /\ a.booking # b.booking
          /\ SameTable(a.seat, b.seat)
          /\ Overlap(a.booking, b.booking)

\* C4: after any sequence of validated table creations and updates the
\* container_table links form a forest: from every table the chain of
\* containers ends (within as many steps as there are tables), so no table is
\* its own container or ancestor.
C4_Forest ==
    \A t \in DOMAIN tables :
        /\ tables[t].container_table # t
        /\ NthContainer(t, Cardinality(DOMAIN tables)) = None
        /\ t \notin Ancestors(t)

\* C4 witness: a re-parenting that would have closed a cycle over a chain of
\* depth two has just been refused.
C4_Witness ==
    /\ result.op = "UpdateTableContainer"
    /\ ErrSubTable \in result.errors
    /\ \E t \in DOMAIN tables : Depth(t) >= 2

\* C5: true_number(T) is true_number of T's container when T has one and T's
\* number otherwise, and so it is the number of the root of T's container
\* chain, however long the chain.
C5_TrueNumberIsRootNumber ==
    \A t \in DOMAIN tables :
        /\ tables[t].container_table # None
              => true_number(t) = true_number(tables[t].container_table)
        /\ tables[t].container_table = None => true_number(t) = tables[t].number
        /\ true_number(t) = tables[Root(t)].number

\* C5 witness: a table two levels below its root whose true number is neither
\* its own number nor its container's.
C5_Witness ==
    \E t \in DOMAIN tables :
        /\ Depth(t) >= 2
        /\ true_number(t) # tables[t].number
        /\ true_number(t) # tables[tables[t].container_table].number
        /\ true_number(t) = tables[Root(t)].number

\* C6: T.seats is, for a table without a container, the seats of T and of all
\* its direct and transitive sub-tables; for a table with a container, the
\* seats of T alone.
C6_EffectiveSeats ==
    \A t \in DOMAIN tables :
        Table_seats(t) =
            IF tables[t].container_table = None
            THEN {s \in DOMAIN seats : seats[s].table \in Descendants(t) \cup {t}}
            ELSE {s \in DOMAIN seats : seats[s].table = t}

\* C6 witness: a table between a container and a sub-table, with a seat at
\* each of the three.
C6_Witness ==
    \E t \in DOMAIN tables :
        /\ tables[t].container_table # None
        /\ _seats(tables[t].container_table) # {}
        /\ _seats(t) # {}
        /\ \E sub \in sub_tables(t) : _seats(sub) # {}
        /\ Table_seats(t) = _seats(t)
        /\ Cardinality(Table_seats(tables[t].container_table)) = 3

\* C7 as claimed: for a table without a container, T.seats is the union of
\* T's own seats and S.seats for every direct sub-table S.
C7_UnionOverDirectSubTables ==
    \A t \in DOMAIN tables :
        tables[t].container_table = None =>
            Table_seats(t) = _seats(t) \cup UNION {Table_seats(sub) : sub \in sub_tables(t)}

\* C7 amended: for a table without a container, T.seats is the union of T's
\* own seats and S.seats for every direct or transitive sub-table S.
C7_UnionOverAllSubTables ==
    \A t \in DOMAIN tables :
        tables[t].container_table = None =>
            Table_seats(t) = _seats(t) \cup UNION {Table_seats(sub) : sub \in Descendants(t)}

\* C7 witness: a table without a container whose seats include a seat at a
\* sub-table of a sub-table.
C7_Witness ==
    \E t \in DOMAIN tables :
        /\ tables[t].container_table = None
        /\ \E sub \in Descendants(t) :
              /\ Depth(sub) >= 2
              /\ _seats(sub) # {}
              /\ _seats(sub) \subseteq Table_seats(t)

\* A save of a table that raised an error wrote nothing.
TableWriteFollowsValidation == result'.errors # {} => tables' = tables

\* The instance table.update(container_table=c) validates and writes.
Reparented(t, c) == [tables[t] EXCEPT !.container_table = c]

\* C8 as claimed: saving a table with one of its direct or transitive
\* sub-tables as container_table raises the "cannot be a sub-table" error and
\* leaves the stored tables as they were.
C8_SubTableAsContainerRejected ==
    [][\A t \in DOMAIN tables : \A c \in Descendants(t) :
          (result'.op = "UpdateTableContainer" /\ UpdateTableContainer(t, c)) =>
              /\ ErrSubTable \in result'.errors
              /\ tables' = tables]_vars

\* C9: saving a table with itself as container_table raises the "cannot be
\* this own table" error and changes nothing, and no table is ever stored as
\* its own container.
C9_OwnTableRejected ==
    /\ [](\A t \in DOMAIN tables :
            /\ ErrOwnTable \in Table_full_clean(t, Reparented(t, t))
            /\ tables[t].container_table # t)
    /\ [][TableWriteFollowsValidation]_vars

\* C9 witness: such a save has just been refused.
C9_Witness ==
    /\ result.op = "UpdateTableContainer"
    /\ ErrOwnTable \in result.errors
    /\ DOMAIN tables # {}

\* C10: saving a table whose container_table is at another restaurant than the
\* table (on creation, on re-parenting, or on moving the table to another
\* restaurant) raises the "same restaurant" error and changes nothing.
C10_OtherRestaurantRejected ==
    /\ [](/\ \A r \in Restaurants, c \in DOMAIN tables :
                tables[c].restaurant # r =>
                    ErrSameRestaurant \in
                        Table_full_clean(None, [number |-> NextNumber, restaurant |-> r,
                                                container_table |-> c])
          /\ \A t \in DOMAIN tables, c \in DOMAIN tables :
                tables[c].restaurant # tables[t].restaurant =>
                    ErrSameRestaurant \in Table_full_clean(t, Reparented(t, c))
          /\ \A t \in DOMAIN tables, r \in Restaurants :
                (/\ tables[t].container_table # None
                 /\ tables[tables[t].container_table].restaurant # r) =>
                    ErrSameRestaurant \in
                        Table_full_clean(t, [tables[t] EXCEPT !.restaurant = r]))
    /\ [][TableWriteFollowsValidation]_vars

\* C10 witness: a re-parenting under a table of another restaurant has just
\* been refused.
C10_Witness ==
    /\ result.op = "UpdateTableContainer"
    /\ ErrSameRestaurant \in result.errors
    /\ \E t, c \in DOMAIN tables : tables[t].restaurant # tables[c].restaurant

\* ---------------------------------------------------------------- claims C11 - C20
\* C11 as claimed: every table that has a container table is at the same
\* restaurant as that container.
C11_SameRestaurantAsContainer ==
    \A t \in DOMAIN tables :
        tables[t].container_table # None =>
            tables[t].restaurant = tables[tables[t].container_table].restaurant

\* The restaurant of the table a seat is at.
SeatRestaurant(seat) == tables[seats[seat].table].restaurant

\* The restaurants of the tables of the seats attached to a booking.
BookingRestaurants(booking) ==
    {SeatRestaurant(sb.seat) : sb \in Booking_seat_bookings(booking)}

\* C12 as claimed: all seats attached to one booking are at tables of one
\* single restaurant.
C12_BookingAtOneRestaurant ==
    \A b \in DOMAIN bookings : Cardinality(BookingRestaurants(b)) <= 1

\* C13: creating a seat-booking for a booking that already has a seat-booking
\* raises the "same restaurant" error whenever the new seat is at another
\* restaurant than the booking's seats, and then nothing is written; the first
\* seat-booking of a booking never raises it, whatever the seat's restaurant,
\* and is stored unless another booking's window conflicts at the table.
C13_SecondSeatAtOtherRestaurantRejected ==
    /\ [](\A s \in DOMAIN seats, b \in DOMAIN bookings :
            LET errors == SeatBooking_full_clean(NoRow, NewSeatBooking(s, b, GuestFace(s)))
            IN  /\ (/\ Booking_seat_bookings(b) # {}
                    /\ \E r \in BookingRestaurants(b) : r # SeatRestaurant(s))
                      => ErrBookingRestaurant \in errors
                /\ Booking_seat_bookings(b) = {}
                      => /\ ErrBookingRestaurant \notin errors
                         /\ Conflicting(s, b) = {} => errors = {})
    /\ [][SeatBookingWriteFollowsValidation]_vars

\* C13 witness: a booking's first seat-booking was stored for a seat at
\* restaurant 2, and its second, for a seat at restaurant 1, has just been
\* refused with the "same restaurant" error.
C13_Witness ==
    /\ result.op = "CreateSeatBooking"
    /\ ErrBookingRestaurant \in result.errors
    /\ \E b \in DOMAIN bookings :
          /\ BookingRestaurants(b) = {2}
          /\ Cardinality(Booking_seat_bookings(b)) = 1

\* Two users have the same first_name and the same last_name.
SameName(a, b) ==
    /\ users[a].first_name = users[b].first_name
    /\ users[a].last_name = users[b].last_name

\* The employees of a restaurant other than "user" that have the given name.
Namesakes(restaurant, user, first_name, last_name) ==
    {e \in employees[restaurant] \ {user} :
        users[e].first_name = first_name /\ users[e].last_name = last_name}

\* C14 as claimed: no restaurant has two distinct employees with the same
\* (first_name, last_name) pair.
C14_UniqueNamesAtRestaurant ==
    \A r \in Restaurants : \A a, b \in employees[r] : a # b => ~SameName(a, b)

\* C15 as claimed: adding a user to a restaurant that already has a different
\* employee with the same first_name and last_name, from the restaurant's side
\* or from the user's, raises an integrity error, writes nothing, and the user
\* is not an employee of the restaurant afterwards.
C15_AddNamesakeRaises ==
    [][\A r \in StaffRestaurants, u \in DOMAIN users :
          (/\ Namesakes(r, u, users[u].first_name, users[u].last_name) # {}
           /\ \/ result'.op = "RestaurantEmployeesAdd" /\ RestaurantEmployeesAdd(r, {u})
              \/ result'.op = "UserRestaurantsAdd" /\ UserRestaurantsAdd(u, {r}))
              => /\ result'.errors = {IntegrityError}
                 /\ employees' = employees
                 /\ u \notin employees'[r]]_vars

\* C16: saving a persisted user under the first_name and last_name of another
\* employee of any restaurant the user is assigned to raises the "unique"
\* error on first_name and last_name, and the stored names do not change.
C16_RenameToNamesakeRejected ==
    /\ [](\A u \in DOMAIN users, f \in FirstNames, l \in LastNames :
            (\E r \in Restaurants : u \in employees[r] /\ Namesakes(r, u, f, l) # {})
                => User_clean(u, [first_name |-> f, last_name |-> l]) = {ErrNameUnique})
    /\ [][(result'.op = "UpdateUserName" /\ result'.errors # {}) => users' = users]_vars

\* C16 witness: a rename has just been refused while a user assigned to both
\* restaurants has a colleague of another name at the second restaurant only.
C16_Witness ==
    /\ result.op = "UpdateUserName"
    /\ result.errors = {ErrNameUnique}
    /\ \E u, e \in DOMAIN users :
          /\ u # e
          /\ u \in employees[1] /\ u \in employees[2]
          /\ e \in employees[2] /\ e \notin employees[1]
          /\ ~SameName(u, e)

\* The instance a creation of an order validates and writes.
NewOrder(m, sb) == [menu_item |-> m, seat_booking |-> sb]

\* C17: saving an order whose menu item is not available at the restaurant of
\* its seat-booking's seat's table raises the error on menu_item and writes
\* nothing; once that restaurant is in the item's availability set, the save
\* of the same order raises nothing and the order is stored.
C17_OrderNeedsAvailableMenuItem ==
    /\ [](\A m \in DOMAIN available_at_restaurants, sb \in seatBookings :
            /\ SeatRestaurant(sb.seat) \notin available_at_restaurants[m]
                  => Order_clean(NewOrder(m, sb)) = {ErrMenuItemRestaurant}
            /\ SeatRestaurant(sb.seat) \in available_at_restaurants[m]
                  => Order_clean(NewOrder(m, sb)) = {})
    /\ [][result'.op = "CreateOrder" =>
            IF result'.errors # {}
            THEN orders' = orders
            ELSE /\ Cardinality(DOMAIN orders') = Cardinality(DOMAIN orders) + 1
                 /\ \A o \in DOMAIN orders : orders'[o] = orders[o]]_vars

\* C17 witness: an order has just been refused for a menu item that is
\* available at another restaurant than the seat-booking's, and the same
\* order would be stored were the item available at the seat-booking's too.
C17_Witness ==
    /\ result.op = "CreateOrder"
    /\ result.errors = {ErrMenuItemRestaurant}
    /\ \E m \in DOMAIN available_at_restaurants, sb \in seatBookings :
          /\ available_at_restaurants[m] # {}
          /\ SeatRestaurant(sb.seat) \notin available_at_restaurants[m]

\* C18 as claimed: the menu item of every stored order is available at the
\* restaurant of the order's seat-booking's seat's table.
C18_OrderedItemsAvailable ==
    \A o \in DOMAIN orders :
        SeatRestaurant(orders[o].seat_booking.seat)
            \in available_at_restaurants[orders[o].menu_item]

\* The tables of a restaurant that carry a number.
TablesNumbered(number, restaurant) ==
    {t \in DOMAIN tables : tables[t].number = number /\ tables[t].restaurant = restaurant}

\* The instance a creation of a table without a container validates and writes.
NewTable(n, r) == [number |-> n, restaurant |-> r, container_table |-> None]

\* C19: creating a table under a number that a table of the same restaurant
\* has raises the uniqueness error and writes nothing; under a number that no
\* table of that restaurant has (whether or not a table of another restaurant
\* has it) it raises nothing and the table is stored; and no two tables of
\* one restaurant share a number.
C19_NumberUniquePerRestaurant ==
    /\ [](/\ \A n \in Numbers, r \in Restaurants :
                Table_full_clean(None, NewTable(n, r)) =
                    IF TablesNumbered(n, r) # {} THEN {ErrTableNumberUnique} ELSE {}
          /\ \A n \in Numbers, r \in Restaurants : Cardinality(TablesNumbered(n, r)) <= 1)
    /\ [][result'.op = "CreateTable" =>
            IF result'.errors # {}
            THEN tables' = tables
            ELSE /\ Cardinality(DOMAIN tables') = Cardinality(DOMAIN tables) + 1
                 /\ \A t \in DOMAIN tables : tables'[t] = tables[t]]_vars

\* C19 witness: a creation has just been refused for its number while two
\* tables of different restaurants share a number.
C19_Witness ==
    /\ result.op = "CreateTable"
    /\ result.errors = {ErrTableNumberUnique}
    /\ \E a, b \in DOMAIN tables :
          /\ tables[a].number = tables[b].number
          /\ tables[a].restaurant # tables[b].restaurant

\* C20: no two seat-bookings share a (seat, booking) pair and no two share a
\* (booking, face) pair, also when requests creating seat-bookings interleave
\* between validation and write.
C20_SeatAndFaceUniqueInBooking ==
    \A a, b \in seatBookings :
        a # b =>
            /\ ~(a.seat = b.seat /\ a.booking = b.booking)
            /\ ~(a.booking = b.booking /\ a.face = b.face)

\* C20 witness: the write of a request that had passed validation has just
\* been refused by the storage, while one seat is attached to two bookings
\* and two seats are attached to one booking.
C20_Witness ==
    /\ result.op = "RequestSave"
    /\ result.errors = {IntegrityError}
    /\ \E a, b \in seatBookings : a.seat = b.seat /\ a.booking # b.booking
    /\ \E a, b \in seatBookings : a.seat # b.seat /\ a.booking = b.booking

\* ---------------------------------------------------------------- claims C21 - C30
\* C21: every stored booking has start < end; validating a booking with
\* start >= end raises the start-before-end error, and a creation or update
\* that raised it leaves the stored bookings as they were.
C21_StartBeforeEnd ==
    /\ [](/\ \A b \in DOMAIN bookings : bookings[b].start < bookings[b].end
          /\ \A s, e \in Times :
                s >= e => Booking_validate_constraints([start |-> s, end |-> e]) = {ErrStartEnd})
    /\ [][(result'.op \in {"CreateBooking", "UpdateBooking"} /\ result'.errors # {})
            => bookings' = bookings]_vars

\* C21 witness: an update of a stored booking has just been refused with the
\* start-before-end error.
C21_Witness ==
    /\ result.op = "UpdateBooking"
    /\ result.errors = {ErrStartEnd}
    /\ bookings # EmptyStore

\* Everything that is persisted.
Store == <<tables, seats, bookings, seatBookings, users, employees,
           available_at_restaurants, orders, restaurants>>

\* C22: a save validates the instance against the persisted state before it
\* writes: every row that a step stores or changes (a table, a seat-booking,
\* an order) passes full_clean in the state before the step, and a step that
\* raised an error leaves everything persisted exactly as it was.
C22_ValidatedBeforeWritten ==
    [][/\ result'.errors # {} => Store' = Store
       /\ \A t \in DOMAIN tables' :
             (t \notin DOMAIN tables \/ tables'[t] # tables[t])
                 => Table_full_clean(IF t \in DOMAIN tables THEN t ELSE None, tables'[t]) = {}
       /\ \A sb \in seatBookings' \ seatBookings :
             \E pk \in (seatBookings \ seatBookings') \cup {NoRow} :
                 SeatBooking_full_clean(pk, sb) = {}
       /\ \A o \in DOMAIN orders' \ DOMAIN orders : Order_clean(orders'[o]) = {}]_vars

\* C22 witness: the move of a seat-booking to another seat has just been
\* refused while an order is stored.
C22_Witness ==
    /\ result.op = "UpdateSeatBooking"
    /\ result.errors # {}
    /\ orders # EmptyStore

\* C25: Booking.restaurant is None exactly when the booking has no
\* seat-bookings; otherwise it is the restaurant of a table of one of the
\* booking's seats, and so the one restaurant of the booking's tables when
\* they are all at one restaurant.
C25_BookingRestaurant ==
    \A b \in DOMAIN bookings :
        /\ Booking_restaurant(b) = None <=> Booking_seat_bookings(b) = {}
        /\ Booking_seat_bookings(b) # {} => Booking_restaurant(b) \in BookingRestaurants(b)
        /\ \A r \in Restaurants : BookingRestaurants(b) = {r} => Booking_restaurant(b) = r

\* C25 witness: a booking holds seats at two tables of one restaurant, and
\* that restaurant is the booking's.
C25_Witness ==
    \E b \in DOMAIN bookings, r \in Restaurants :
        /\ Cardinality(Booking_tables(b)) >= 2
        /\ BookingRestaurants(b) = {r}
        /\ Booking_restaurant(b) = r

\* The effective seat set of a table: for a table without a container its own
\* seats and those of all its direct and transitive sub-tables, for a table
\* with a container its own seats.
EffectiveSeats(t) ==
    IF tables[t].container_table = None
    THEN {s \in DOMAIN seats : seats[s].table \in Descendants(t) \cup {t}}
    ELSE {s \in DOMAIN seats : seats[s].table = t}

\* C26: T.bookings is exactly the set of bookings with at least one
\* seat-booking on a seat of T's effective seat set.
C26_TableBookings ==
    \A t \in DOMAIN tables :
        Table_bookings(t) =
            {b \in DOMAIN bookings :
                \E sb \in Booking_seat_bookings(b) : sb.seat \in EffectiveSeats(t)}

\* C26 witness: a table without a container has a booking only through a seat
\* at one of its sub-tables, the booking holds two seats of the table's
\* effective seat set, and another table has no booking.
C26_Witness ==
    \E t, other \in DOMAIN tables, b \in DOMAIN bookings :
        /\ tables[t].container_table = None
        /\ b \in Table_bookings(t)
        /\ \A sb \in Booking_seat_bookings(b) : seats[sb.seat].table # t
        /\ Cardinality({sb \in Booking_seat_bookings(b) : sb.seat \in EffectiveSeats(t)}) >= 2
        /\ Table_bookings(other) = {}

\* The stored seat-bookings of other bookings whose window overlaps that of
\* "booking", at seats of the container table or of a sub-table of the table
\* "seat" is at.
NestedConflicting(seat, booking) ==
    {other \in seatBookings :
        /\ other.booking # booking
        /\ Overlap(other.booking, booking)
        /\ \/ seats[other.seat].table \in Ancestors(seats[seat].table)
           \/ seats[other.seat].table \in Descendants(seats[seat].table)}

\* C29: a seat-booking is refused for overlap only because of seat-bookings of
\* other bookings at seats of the seat's own table: with none there, the first
\* seat-booking of a booking raises nothing and is stored, whatever is booked
\* at the container table or the sub-tables of the seat's table.
C29_OverlapAtOwnTableOnly ==
    /\ [](\A s \in DOMAIN seats, b \in DOMAIN bookings :
            LET errors == SeatBooking_full_clean(NoRow, NewSeatBooking(s, b, GuestFace(s)))
            IN  /\ ErrSeatOverlap \in errors => Conflicting(s, b) # {}
                /\ (Conflicting(s, b) = {} /\ Booking_seat_bookings(b) = {}) => errors = {})
    /\ [][SeatBookingWriteFollowsValidation]_vars

\* C29 witness: a seat of a container table and a seat of its sub-table are
\* held by two different bookings with overlapping windows, the second of
\* them stored by the last step.
C29_Witness ==
    /\ result.op = "CreateSeatBooking"
    /\ result.errors = {}
    /\ \E a, b \in seatBookings :
          /\ a.booking # b.booking
          /\ Overlap(a.booking, b.booking)
          /\ tables[seats[a.seat].table].container_table = seats[b.seat].table
          /\ a \in NestedConflicting(b.seat, b.booking)

\* C28: every stored user that is a superuser is staff: a save that sets
\* is_superuser stores the user as staff, whatever is_staff was set to, and
\* create_superuser with is_staff or is_superuser given as False raises
\* ValueError and stores no user.
C28_SuperuserIsStaff ==
    /\ [](\A u \in DOMAIN users : users[u].is_superuser => users[u].is_staff)
    /\ [][/\ \A u \in DOMAIN users, is_staff \in BOOLEAN :
                (result'.op = "UpdateUserFlags" /\ UpdateUserFlags(u, is_staff, TRUE))
                    => /\ result'.errors = {}
                       /\ users'[u].is_superuser
                       /\ users'[u].is_staff
          /\ \A f \in FirstNames, l \in LastNames, extra_fields \in ExtraFields :
                (/\ result'.op = "CreateSuperuser"
                 /\ CreateSuperuser(f, l, extra_fields)
                 /\ \E field \in DOMAIN extra_fields : extra_fields[field] = FALSE)
                    => /\ result'.errors = {ValueError}
                       /\ users' = users]_vars

\* C28 witness: a stored superuser has just been saved with is_staff set to
\* False and is stored as staff.
C28_Witness ==
    /\ result.op = "UpdateUserFlags"
    /\ result.errors = {}
    /\ \E u \in DOMAIN users : users[u].is_superuser /\ users[u].is_staff

\* ---------------------------------------------------------------- C23
\* SeatBooking.objects.create as Table.create_booking runs it, applied to the
\* store as it is, raises what full_clean and the write of SeatBooking_save raise.
CreateAgreesWithSave ==
    \A s \in DOMAIN seats, b \in DOMAIN bookings, f \in Faces :
        LET self == NewSeatBooking(s, b, f)
            errors == SeatBooking_full_clean(NoRow, self)
        IN  SeatBooking_objects_create(bookings, seatBookings, self)
                = (IF errors # {} THEN errors ELSE SeatBooking_write(NoRow, self))

\* C23 as claimed: a create_booking that raises leaves the store as it was:
\* neither the new booking nor a seat-booking created earlier in the call is
\* stored.
C23_NothingStoredWhenCreateBookingRaises ==
    [][(result'.op = "create_booking" /\ result'.errors # {}) => Store' = Store]_vars

\* ---------------------------------------------------------------- C27
\* The window [start, end) overlaps the window of the stored booking b.
OverlapsWindow(b, start, end) ==
    ~(bookings[b].end <= start \/ bookings[b].start >= end)

\* The number of pairs create_booking makes of the seats and the faces.
Paired(seats_all, faces) ==
    IF Len(seats_all) <= Len(faces) THEN Len(seats_all) ELSE Len(faces)

\* No booking of a seat of the table's effective seat set overlaps [start, end).
NoConflictingBookings(t, start, end) ==
    \A sb \in seatBookings :
        sb.seat \in EffectiveSeats(t) => ~OverlapsWindow(sb.booking, start, end)

\* The call has stored exactly one new booking, for [start, end), and one
\* seat-booking of it for each of the first Paired seats, the i-th seat with
\* the i-th face; given at least as many faces as seats, the booked seats are
\* the table's effective seat set.
BookedAsGiven(call, t, start, end, faces, seats_all) ==
    LET booking == Len(bookings) + 1
        created == call.seatBookings \ seatBookings
    IN  /\ call.bookings = Append(bookings, [start |-> start, end |-> end])
        /\ seatBookings \subseteq call.seatBookings
        /\ created = {NewSeatBooking(seats_all[i], booking, faces[i]) :
                          i \in 1..Paired(seats_all, faces)}
        /\ Cardinality(created) = Paired(seats_all, faces)
        /\ Len(faces) >= Len(seats_all) => {sb.seat : sb \in created} = EffectiveSeats(t)

\* C27 as claimed: create_booking on a table with no conflicting bookings
\* stores one new booking with the given start and end and one seat-booking
\* for each of the first min(|T.seats|, |faces|) seats, paired positionally
\* with the faces.
C27_BooksFirstSeatsWithFaces ==
    \A t \in DOMAIN tables :
        \A seats_all \in QuerySet_orders(Table_seats(t)), window \in ReservationWindows, faces \in FaceLists :
            NoConflictingBookings(t, window[1], window[2])
                => BookedAsGiven(create_booking(t, window[1], window[2], faces, seats_all),
                                 t, window[1], window[2], faces, seats_all)

\* C27 amended: create_booking with start before end, on a table with no
\* conflicting bookings, whose first min(|T.seats|, |faces|) seats are at
\* tables of one restaurant, and with the first min(|T.seats|, |faces|) faces
\* pairwise distinct, raises nothing and stores one new booking with the given
\* start and end and one seat-booking for each of those seats, paired
\* positionally with the faces; and whenever create_booking raises nothing it
\* has stored exactly that.
C27_BooksFirstSeatsWithDistinctFaces ==
    \A t \in DOMAIN tables :
        \A seats_all \in QuerySet_orders(Table_seats(t)), window \in ReservationWindows, faces \in FaceLists :
            LET call == create_booking(t, window[1], window[2], faces, seats_all)
            IN  /\ (/\ window[1] < window[2]
                    /\ NoConflictingBookings(t, window[1], window[2])
                    /\ \A i, j \in 1..Paired(seats_all, faces) :
                          /\ i # j => faces[i] # faces[j]
                          /\ SeatRestaurant(seats_all[i]) = SeatRestaurant(seats_all[j]))
                       => call.errors = {}
                /\ call.errors = {}
                       => BookedAsGiven(call, t, window[1], window[2], faces, seats_all)

\* C27 witness: two bookings made by create_booking, the second without an
\* error, each holding both effective seats of table 1.
C27_Witness ==
    /\ result.op = "create_booking"
    /\ result.errors = {}
    /\ Len(bookings) = 2
    /\ \A b \in DOMAIN bookings : {sb.seat : sb \in Booking_seat_bookings(b)} = EffectiveSeats(1)
    /\ Cardinality(EffectiveSeats(1)) = 2

\* ---------------------------------------------------------------- C24
\* Every reference of a stored row leads to a stored row.
ReferencesExist ==
    /\ \A sb \in seatBookings : sb.seat \in DOMAIN seats /\ sb.booking \in DOMAIN bookings
    /\ \A s \in DOMAIN seats : seats[s].table \in DOMAIN tables
    /\ \A t \in DOMAIN tables : tables[t].restaurant \in restaurants

\* The seats at the tables of restaurant r.
SeatsAtRestaurant(r) == {s \in DOMAIN seats : tables[seats[s].table].restaurant = r}

\* A seat of "pks" is booked.
Booked(pks) == \E sb \in seatBookings : sb.seat \in pks

\* C24: every seat-booking's seat and booking, every seat's table and every
\* table's restaurant exist in every reachable state; a deletion that reaches
\* a booked seat (the seat itself, its table or its restaurant deleted) is
\* refused with the store unchanged, and every other deletion removes the
\* deleted row together with the restaurant's tables, the table's seats and
\* the booking's seat-bookings.
C24_DeletionFollowsOwnership ==
    /\ []ReferencesExist
    /\ [][/\ \A r \in restaurants :
                (result'.op = "DeleteRestaurant" /\ DeleteRestaurant(r))
                    => IF Booked(SeatsAtRestaurant(r))
                       THEN result'.errors = {ProtectedError} /\ Store' = Store
                       ELSE /\ result'.errors = {}
                            /\ r \notin restaurants'
                            /\ \A t \in DOMAIN tables :
                                  t \in DOMAIN tables' <=> tables[t].restaurant # r
          /\ \A t \in DOMAIN tables :
                (result'.op = "DeleteTable" /\ DeleteTable(t))
                    => IF Booked({s \in DOMAIN seats : seats[s].table = t})
                       THEN result'.errors = {ProtectedError} /\ Store' = Store
                       ELSE /\ result'.errors = {}
                            /\ DOMAIN tables' = DOMAIN tables \ {t}
                            /\ \A s \in DOMAIN seats :
                                  s \in DOMAIN seats' <=> seats[s].table # t
          /\ \A s \in DOMAIN seats :
                (result'.op = "DeleteSeat" /\ DeleteSeat(s))
                    => IF Booked({s})
                       THEN result'.errors = {ProtectedError} /\ Store' = Store
                       ELSE result'.errors = {} /\ DOMAIN seats' = DOMAIN seats \ {s}
          /\ \A b \in DOMAIN bookings :
                (result'.op = "DeleteBooking" /\ DeleteBooking(b))
                    => /\ result'.errors = {}
                       /\ DOMAIN bookings' = DOMAIN bookings \ {b}
                       /\ \A sb \in seatBookings : sb \in seatBookings' <=> sb.booking # b]_vars

\* C24 witness: a restaurant has been deleted with its tables and seats while
\* seats of another restaurant are booked.
C24_Witness ==
    /\ result.op = "DeleteRestaurant"
    /\ result.errors = {}
    /\ restaurants # Restaurants
    /\ Cardinality(DOMAIN tables) < Len(FloorTables)
    /\ Cardinality(DOMAIN seats) < Len(FloorSeats)
    /\ seatBookings # {}

\* ---------------------------------------------------------------- C30
\* The URLs a sequence holds.
Range(seq) == {seq[i] : i \in DOMAIN seq}

\* The number of GETs of a call whose i-th GET is answered by status_codes[i]:
\* up to the first 200, and three at most.
Attempts(status_codes) ==
    IF status_codes[1] = 200 THEN 1 ELSE IF status_codes[2] = 200 THEN 2 ELSE 3

\* C30: a call of generate_image takes its URLs from the front of the shared
\* iterator, one per GET and three at most; it returns the image of the first
\* URL answered with 200, goes on to the next URL after a failed first or
\* second GET and raises the RequestException of a failed third GET; the URLs
\* it has taken are no longer in the iterator, and no URL is in it twice.
C30_ThreeUrlsAtMost ==
    /\ [](\A i, j \in DOMAIN _generatable_face_images_urls :
            i # j => _generatable_face_images_urls[i] # _generatable_face_images_urls[j])
    /\ [][\A status_codes \in [1..3 -> StatusCodes] :
            (result'.op = "generate_image" /\ Face_generate_image(status_codes))
                => LET iterator == _generatable_face_images_urls
                       n == Attempts(status_codes)
                       taken == Len(iterator) - Len(_generatable_face_images_urls')
                   IN  /\ taken <= 3
                       /\ _generatable_face_images_urls' = SubSeq(iterator, taken + 1, Len(iterator))
                       /\ Len(iterator) >= n
                             => /\ taken = n
                                /\ IF status_codes[n] = 200
                                   THEN result'.errors = {} /\ result'.image = iterator[n]
                                   ELSE result'.errors = {RequestException}
                       /\ Len(iterator) < n
                             => taken = Len(iterator) /\ result'.errors = {StopIteration}
                       /\ result'.errors = {}
                             => result'.image \notin Range(_generatable_face_images_urls')]_vars

\* C30 witness: the first call on an iterator over all the URLs has taken
\* three of them and raised the RequestException of its third GET.
C30_Witness ==
    /\ result.op = "generate_image"
    /\ result.errors = {RequestException}
    /\ Len(_generatable_face_images_urls) = NumUrls - 3
====
